---- MODULE Spec2Model ----
(***************************************************************************)
(* Model of astrbot_plugin_help (src/main.py): the MyPlugin star, its       *)
(* whitelist parser, the synthesized whitelist handlers, the caller gate of *)
(* get_help and the two registry scans.                                     *)
(*                                                                          *)
(* Python strings are sequences of one-character strings, so that split,    *)
(* strip, replace and the f-string formatting are computed, not assumed.    *)
(* A Python dict is a sequence of <<key, value>> pairs with distinct keys,  *)
(* in insertion order.                                                      *)
(***************************************************************************)
EXTENDS Naturals, Sequences, FiniteSets, TLC

VARIABLES
    pc,                 \* "new" before MyPlugin.__init__ has run, "ready" after
    plugin_whitelist,   \* self.config.plugin_whitelist, as the host holds it now
    whitelist,          \* self.config.whitelist (caller ids)
    whitelist_commands, \* self.whitelist_commands: dict trigger -> plugin name
    registered,         \* filter.command(command)(handler_func) registrations
    attrs,              \* attributes bound by setattr(self, handler_name, ...)
    stars,              \* what self.context.get_all_stars() returns
    star_handlers_registry, \* the host's global handler registry
    last                \* what the last invocation did (replies, render calls)

vars == <<pc, plugin_whitelist, whitelist, whitelist_commands, registered,
          attrs, stars, star_handlers_registry, last>>

----------------------------------------------------------------------------
(* Bounds *)

MaxConfigSize == 8
MaxEntries == 2
MaxWhitelist == 2
MaxStars == 2
MaxHandlers == 2

----------------------------------------------------------------------------
(* Python values *)

\* a Python str value
PyStr(chars) == [type |-> "str", chars |-> chars, int |-> 0]

\* a Python int value (non-negative)
PyInt(n) == [type |-> "int", chars |-> <<>>, int |-> n]

\* a value that is neither (isinstance(item, str) is False)
PyOther == [type |-> "other", chars |-> <<>>, int |-> 0]

Digit(d) == CASE d = 0 -> "0" [] d = 1 -> "1" [] d = 2 -> "2" [] d = 3 -> "3"
              [] d = 4 -> "4" [] d = 5 -> "5" [] d = 6 -> "6" [] d = 7 -> "7"
              [] d = 8 -> "8" [] d = 9 -> "9"

RECURSIVE IntToStr(_)
IntToStr(n) == IF n < 10 THEN <<Digit(n)>>
               ELSE Append(IntToStr(n \div 10), Digit(n % 10))

\* str(v)
str(v) == IF v.type = "int" THEN IntToStr(v.int) ELSE v.chars

\* c in s, for a one-character c
Contains(s, c) == \E i \in 1..Len(s) : s[i] = c

\* s.split(c, 1) for a string that contains c: <<left, right>>
split1(s, c) ==
    LET i == CHOOSE k \in 1..Len(s) :
                 s[k] = c /\ \A j \in 1..(k - 1) : s[j] # c
    IN <<SubSeq(s, 1, i - 1), SubSeq(s, i + 1, Len(s))>>

RECURSIVE lstrip(_)
lstrip(s) == IF s # <<>> /\ Head(s) = " " THEN lstrip(Tail(s)) ELSE s

RECURSIVE rstrip(_)
rstrip(s) == IF s # <<>> /\ s[Len(s)] = " "
             THEN rstrip(SubSeq(s, 1, Len(s) - 1)) ELSE s

\* s.strip()
strip(s) == rstrip(lstrip(s))

\* s.replace(' ', '_')
replace_space(s) == [i \in 1..Len(s) |-> IF s[i] = " " THEN "_" ELSE s[i]]

----------------------------------------------------------------------------
(* Python dicts *)

DictHas(d, k) == \E i \in 1..Len(d) : d[i][1] = k

DictGet(d, k) == d[CHOOSE i \in 1..Len(d) : d[i][1] = k][2]

\* d[k] = v: an existing key keeps its position
DictPut(d, k, v) ==
    IF DictHas(d, k)
    THEN [i \in 1..Len(d) |-> IF d[i][1] = k THEN <<k, v>> ELSE d[i]]
    ELSE Append(d, <<k, v>>)

----------------------------------------------------------------------------
(* MyPlugin._parse_whitelist_config and MyPlugin._create_whitelist_handlers *)

\* the guard of both parsing loops
IsEntry(item) == item.type = "str" /\ Contains(item.chars, "-")

\* ParseStep, were an existing key kept (setdefault instead of assignment)
ParseStepKeepFirst(whitelist_config, item) ==
    IF IsEntry(item)
    THEN LET parts == split1(item.chars, "-")
         IN IF DictHas(whitelist_config, strip(parts[2]))
            THEN whitelist_config
            ELSE DictPut(whitelist_config, strip(parts[2]), strip(parts[1]))
    ELSE whitelist_config

\* the body of the parsing loop of _parse_whitelist_config
ParseStep(whitelist_config, item) ==
    IF IsEntry(item)
    THEN LET parts == split1(item.chars, "-")
         IN DictPut(whitelist_config, strip(parts[2]), strip(parts[1]))
    ELSE whitelist_config

RECURSIVE ParseFrom(_, _, _)
ParseFrom(whitelist_config, items, i) ==
    IF i > Len(items) THEN whitelist_config
    ELSE ParseFrom(ParseStep(whitelist_config, items[i]), items, i + 1)

\* {trigger: plugin name}
parse_whitelist_config(items) == ParseFrom(<<>>, items, 1)

\* the body of the parsing loop of get_plugin_whitelist_commands
ExtParseStep(whitelist_config, item) ==
    IF IsEntry(item)
    THEN LET parts == split1(item.chars, "-")
         IN DictPut(whitelist_config, strip(parts[1]), strip(parts[2]))
    ELSE whitelist_config

RECURSIVE ExtParseFrom(_, _, _)
ExtParseFrom(whitelist_config, items, i) ==
    IF i > Len(items) THEN whitelist_config
    ELSE ExtParseFrom(ExtParseStep(whitelist_config, items[i]), items, i + 1)

\* {plugin name: trigger}
ext_whitelist_config(items) == ExtParseFrom(<<>>, items, 1)

\* make_handler, were the handler to read the loop variable when it runs
make_handler_late(commands, i) == commands[Len(commands)][2]

\* the plugin_name the handler made in iteration i closes over
make_handler(commands, i) == commands[i][2]

\* handler_name of a command
handler_name(command) == <<"w", "h", "i", "t", "e", "l", "i", "s", "t", "_">>
                             \o replace_space(command)

\* the registrations filter.command(command)(handler_func) of the loop:
\* <<command, bound plugin_name>>, one per item of whitelist_commands
Registrations(commands) ==
    [i \in 1..Len(commands) |-> <<commands[i][1], make_handler(commands, i)>>]

RECURSIVE SetAttrs(_, _, _)
SetAttrs(bound, commands, i) ==
    IF i > Len(commands) THEN bound
    ELSE SetAttrs(DictPut(bound, handler_name(commands[i][1]),
                          <<commands[i][1], make_handler(commands, i)>>),
                  commands, i + 1)

\* the attributes setattr leaves on the instance:
\* handler_name -> <<command, bound plugin_name>>
BoundAttrs(commands) == SetAttrs(<<>>, commands, 1)

----------------------------------------------------------------------------
(* The registry scans *)

\* "astrbot"
NameAstrbot == <<"a", "s", "t", "r", "b", "o", "t">>

\* "astrbot_plugin_help"
NameHelp == NameAstrbot \o <<"_", "p", "l", "u", "g", "i", "n", "_", "h", "e", "l", "p">>

\* "astrbot-reminder"
NameReminder == NameAstrbot \o <<"-", "r", "e", "m", "i", "n", "d", "e", "r">>

\* the names get_all_commands skips
IsReserved(plugin_name) ==
    \/ plugin_name = NameAstrbot
    \/ plugin_name = NameHelp
    \/ plugin_name = NameReminder

\* ActivatedStars, were the activated filter missing
ActivatedStarsUnfiltered(all_stars_metadata) == all_stars_metadata

\* [star for star in all_stars_metadata if star.activated]
ActivatedStars(all_stars_metadata) ==
    SelectSeq(all_stars_metadata, LAMBDA star : star.activated)

\* not plugin_name or not module_path or not isinstance(plugin_instance, Star);
\* module_path "" stands for None, star_cls "object" for a non-Star value
InvalidMetadata(star) ==
    \/ star.name = <<>>
    \/ star.module_path = ""
    \/ star.star_cls \notin {"Star", "self"}

\* plugin_instance is self
IsSelf(star) == star.star_cls = "self"

\* the first CommandFilter's command_name or CommandGroupFilter's group_name
\* among handler.event_filters; <<>> stands for None
RECURSIVE FilterName(_, _)
FilterName(event_filters, i) ==
    IF i > Len(event_filters) THEN <<>>
    ELSE IF event_filters[i].kind \in {"CommandFilter", "CommandGroupFilter"}
         THEN event_filters[i].name
         ELSE FilterName(event_filters, i + 1)

command_name(handler) == FilterName(handler.event_filters, 1)

\* f"{command_name}#{description}" or command_name
formatted_command(handler) ==
    IF handler.desc # <<>>
    THEN command_name(handler) \o <<"#">> \o handler.desc
    ELSE command_name(handler)

InList(list, x) == \E i \in 1..Len(list) : list[i] = x

\* AppendCommand, were the membership test missing
AppendCommandAlways(plugin_commands, plugin_name, formatted) ==
    LET present == IF DictHas(plugin_commands, plugin_name)
                   THEN DictGet(plugin_commands, plugin_name) ELSE <<>>
    IN DictPut(plugin_commands, plugin_name, Append(present, formatted))

\* if formatted_command not in plugin_commands[plugin_name]: append
\* (plugin_commands is a defaultdict(list))
AppendCommand(plugin_commands, plugin_name, formatted) ==
    LET present == IF DictHas(plugin_commands, plugin_name)
                   THEN DictGet(plugin_commands, plugin_name) ELSE <<>>
    IN IF InList(present, formatted)
       THEN plugin_commands
       ELSE DictPut(plugin_commands, plugin_name, Append(present, formatted))

\* the body of "for handler in star_handlers_registry" for one handler
HandlerStep(plugin_commands, star, handler) ==
    IF ~handler.is_metadata THEN plugin_commands
    ELSE IF handler.handler_module_path # star.module_path THEN plugin_commands
    ELSE IF command_name(handler) = <<>> THEN plugin_commands
    ELSE AppendCommand(plugin_commands, star.name, formatted_command(handler))

RECURSIVE ScanHandlers(_, _, _, _)
ScanHandlers(plugin_commands, star, handlers, i) ==
    IF i > Len(handlers) THEN plugin_commands
    ELSE ScanHandlers(HandlerStep(plugin_commands, star, handlers[i]),
                      star, handlers, i + 1)

\* the body of "for star in all_stars_metadata" of get_all_commands
AllStarStep(plugin_commands, star, handlers) ==
    IF IsReserved(star.name) THEN plugin_commands
    ELSE IF InvalidMetadata(star) THEN plugin_commands
    ELSE IF IsSelf(star) THEN plugin_commands
    ELSE ScanHandlers(plugin_commands, star, handlers, 1)

RECURSIVE AllScanFrom(_, _, _, _)
AllScanFrom(plugin_commands, metadata, handlers, i) ==
    IF i > Len(metadata) THEN plugin_commands
    ELSE AllScanFrom(AllStarStep(plugin_commands, metadata[i], handlers),
                     metadata, handlers, i + 1)

\* get_all_commands; raises: self.context.get_all_stars() raises
get_all_commands(all_stars, handlers, raises) ==
    IF raises THEN <<>>
    ELSE AllScanFrom(<<>>, ActivatedStars(all_stars), handlers, 1)

\* the body of "for star in all_stars_metadata" of get_plugin_whitelist_commands
WhiteStarStep(plugin_commands, whitelist_config, star, handlers) ==
    IF ~DictHas(whitelist_config, star.name) THEN plugin_commands
    ELSE IF InvalidMetadata(star) THEN plugin_commands
    ELSE IF IsSelf(star) THEN plugin_commands
    ELSE ScanHandlers(plugin_commands, star, handlers, 1)

RECURSIVE WhiteScanFrom(_, _, _, _, _)
WhiteScanFrom(plugin_commands, whitelist_config, metadata, handlers, i) ==
    IF i > Len(metadata) THEN plugin_commands
    ELSE WhiteScanFrom(
             WhiteStarStep(plugin_commands, whitelist_config, metadata[i], handlers),
             whitelist_config, metadata, handlers, i + 1)

\* get_plugin_whitelist_commands, were it to filter by the map built at
\* construction (self.whitelist_commands) instead of reading the option again
get_plugin_whitelist_commands_built_once(config_value, all_stars, handlers, raises) ==
    IF whitelist_commands = <<>> THEN <<>>
    ELSE IF raises THEN <<>>
    ELSE WhiteScanFrom(<<>>,
                       [n \in 1..Len(whitelist_commands) |->
                            <<whitelist_commands[n][2], whitelist_commands[n][1]>>],
                       ActivatedStars(all_stars), handlers, 1)

\* get_plugin_whitelist_commands
get_plugin_whitelist_commands(config_value, all_stars, handlers, raises) ==
    IF config_value = <<>> THEN <<>>
    ELSE IF raises THEN <<>>
    ELSE WhiteScanFrom(<<>>, ext_whitelist_config(config_value),
                       ActivatedStars(all_stars), handlers, 1)

----------------------------------------------------------------------------
(* The two entry points *)

\* an incoming event: whether event.message_obj has a raw_message, and the
\* raw_message's user_id (has_user_id FALSE: raw.get("user_id", None) is None)
Event(has_raw, has_user_id, user_id) ==
    [has_raw |-> has_raw, has_user_id |-> has_user_id, user_id |-> user_id]

NoEvent == Event(FALSE, FALSE, PyOther)

PlainResult(text, name) ==
    [kind |-> "plain", text |-> text, name |-> name, image |-> <<>>]

\* event.chain_result([Image.fromBytes(image)]) of the image drawn from help_msg
ImageResult(help_msg) ==
    [kind |-> "image", text |-> "", name |-> <<>>, image |-> help_msg]

Outcome(op, event, command, bound, stars_raise, draw_raise, scanned, help_msg, rendered, replies, fault) ==
    [op |-> op, event |-> event, command |-> command, bound |-> bound,
     stars_raise |-> stars_raise, draw_raise |-> draw_raise,
     scanned |-> scanned, help_msg |-> help_msg, rendered |-> rendered,
     replies |-> replies, fault |-> fault]

NoOutcome ==
    Outcome("none", NoEvent, <<>>, <<>>, FALSE, FALSE, FALSE, <<>>, <<>>, <<>>,
            FALSE)

\* NotInWhitelist, were the ids compared without str()
NotInWhitelistUncoerced(caller_whitelist, user_id) ==
    \A i \in 1..Len(caller_whitelist) : caller_whitelist[i] # user_id

\* user_id_str not in whitelist_str
NotInWhitelist(caller_whitelist, user_id) ==
    \A i \in 1..Len(caller_whitelist) : str(caller_whitelist[i]) # str(user_id)

\* the gate of get_help: TRUE when the handler returns at line 88
Denied(caller_whitelist, event) ==
    /\ caller_whitelist # <<>>
    /\ event.has_user_id
    /\ NotInWhitelist(caller_whitelist, event.user_id)

\* get_help on one event; stars_raise: get_all_stars raises,
\* draw_raise: self.drawer.draw_help_image raises
get_help(event, stars_raise, draw_raise) ==
    LET help_msg == get_all_commands(stars, star_handlers_registry, stars_raise)
        out(scanned, msg, rendered, replies, fault) ==
            Outcome("get_help", event, <<>>, <<>>, stars_raise, draw_raise,
                    scanned, msg, rendered, replies, fault)
    IN IF ~event.has_raw
       THEN out(FALSE, <<>>, <<>>, <<>>, TRUE)           \* None.get: AttributeError
       ELSE IF Denied(whitelist, event)
       THEN out(FALSE, <<>>, <<>>, <<>>, FALSE)
       ELSE IF help_msg = <<>>
       THEN out(TRUE, help_msg, <<>>,
                <<PlainResult("no plugins or commands found", <<>>)>>, FALSE)
       ELSE IF draw_raise
       THEN out(TRUE, help_msg, <<help_msg>>, <<>>, TRUE)
       ELSE out(TRUE, help_msg, <<help_msg>>, <<ImageResult(help_msg)>>, FALSE)

\* whitelist_handler closed over plugin_name, registered for command, on one
\* event, when self.config.plugin_whitelist is config_value
whitelist_handler(config_value, command, plugin_name, event, stars_raise, draw_raise) ==
    LET help_msg == get_plugin_whitelist_commands(
                        config_value, stars, star_handlers_registry, stars_raise)
        plugin_help == <<<<plugin_name, DictGet(help_msg, plugin_name)>>>>
        out(rendered, replies) ==
            Outcome("handler", event, command, plugin_name, stars_raise,
                    draw_raise, TRUE, help_msg, rendered, replies, FALSE)
    IN IF ~DictHas(help_msg, plugin_name)
       THEN out(<<>>, <<PlainResult("not found or not active", plugin_name)>>)
       ELSE IF draw_raise
       THEN out(<<plugin_help>>, <<PlainResult("error getting help", <<>>)>>)
       ELSE out(<<plugin_help>>, <<ImageResult(plugin_help)>>)

----------------------------------------------------------------------------
(* Actions *)

\* MyPlugin.__init__
Construct ==
    /\ pc = "new"
    /\ pc' = "ready"
    /\ whitelist_commands' = parse_whitelist_config(plugin_whitelist)
    /\ registered' = Registrations(whitelist_commands')
    /\ attrs' = BoundAttrs(whitelist_commands')
    /\ UNCHANGED <<plugin_whitelist, whitelist, stars, star_handlers_registry, last>>

\* the host dispatches the command "帮助" (or an alias) to get_help
GetHelp(event, stars_raise, draw_raise) ==
    /\ pc = "ready"
    /\ last' = get_help(event, stars_raise, draw_raise)
    /\ UNCHANGED <<pc, plugin_whitelist, whitelist, whitelist_commands,
                   registered, attrs, stars, star_handlers_registry>>

\* the host dispatches the command of the i-th registration to its handler
WhitelistHandler(i, event, stars_raise, draw_raise) ==
    /\ pc = "ready"
    /\ i \in 1..Len(registered)
    /\ last' = whitelist_handler(plugin_whitelist, registered[i][1],
                                 registered[i][2], event, stars_raise, draw_raise)
    /\ UNCHANGED <<pc, plugin_whitelist, whitelist, whitelist_commands,
                   registered, attrs, stars, star_handlers_registry>>

\* the host activates or deactivates the i-th star; last is cleared, so that
\* it always describes an invocation made in the current registry
SetActivated(i) ==
    /\ i \in 1..Len(stars)
    /\ stars' = [stars EXCEPT ![i].activated = ~stars[i].activated]
    /\ last' = NoOutcome
    /\ UNCHANGED <<pc, plugin_whitelist, whitelist, whitelist_commands,
                   registered, attrs, star_handlers_registry>>

\* the host's configuration changes the plugin_whitelist option; last is
\* cleared, so that it always describes an invocation under the current option
SetPluginWhitelist(items) ==
    /\ pc = "ready"
    /\ items # plugin_whitelist
    /\ plugin_whitelist' = items
    /\ last' = NoOutcome
    /\ UNCHANGED <<pc, whitelist, whitelist_commands, registered, attrs,
                   stars, star_handlers_registry>>

----------------------------------------------------------------------------
(* Inputs *)

A == <<"A">>
B == <<"B">>
C == <<"C">>
D == <<"D">>

\* the characters of the exhaustively enumerated plugin_whitelist entries
ParseAlphabet == {"a", "-", " "}

\* the list of strings that text spells, "," ending each item of the list
RECURSIVE Items(_, _, _)
Items(text, i, item) ==
    IF i > Len(text) THEN <<>>
    ELSE IF text[i] = "," THEN <<PyStr(item)>> \o Items(text, i + 1, <<>>)
    ELSE Items(text, i + 1, Append(item, text[i]))

\* the texts of n characters that spell a list: every list of strings over
\* ParseAlphabet with n characters and list items in all is spelled by one
ListTexts(n) ==
    {text \in [1..n -> ParseAlphabet \cup {","}] : n = 0 \/ text[n] = ","}

\* the subsequence of pool at the indexes in I
RECURSIVE Pick(_, _, _)
Pick(pool, I, i) ==
    IF i > Len(pool) THEN <<>>
    ELSE (IF i \in I THEN <<pool[i]>> ELSE <<>>) \o Pick(pool, I, i + 1)

\* the subsequences of pool of at most max elements
SubSeqs(pool, max) ==
    {Pick(pool, I, 1) : I \in {J \in SUBSET (1..Len(pool)) : Cardinality(J) <= max}}

\* the sequences over S of at most max elements
RECURSIVE SeqsUpTo(_, _)
SeqsUpTo(S, max) ==
    IF max = 0 THEN {<<>>}
    ELSE {<<>>} \cup {<<x>> \o q : x \in S, q \in SeqsUpTo(S, max - 1)}

\* plugin_whitelist items "A-a", "B-b", "B-a", "A-a b", "B-a_b", "C-c" and
\* one that is no string
EntryPool ==
    {PyStr(<<"A", "-", "a">>), PyStr(<<"B", "-", "b">>), PyStr(<<"B", "-", "a">>),
     PyStr(<<"A", "-", "a", " ", "b">>), PyStr(<<"B", "-", "a", "_", "b">>),
     PyStr(<<"C", "-", "c">>), PyOther}

\* caller ids the whitelist option holds: "12", 12, "45"
IdPool == {PyStr(<<"1", "2">>), PyInt(12), PyStr(<<"4", "5">>)}

\* events: no raw_message, a raw_message without user_id, and raw messages
\* of the callers 12, "12", 45, "012"
Events ==
    {NoEvent, Event(TRUE, FALSE, PyOther)}
    \cup {Event(TRUE, TRUE, id) :
              id \in {PyInt(12), PyStr(<<"1", "2">>), PyInt(45),
                      PyStr(<<"0", "1", "2">>)}}

Star(name, star_cls, module_path) ==
    [name |-> name, star_cls |-> star_cls, module_path |-> module_path,
     activated |-> TRUE]

\* star metadata the host may hold: two stars sharing a name, two sharing a
\* module, the three reserved names, this plugin itself, a non-Star instance
StarPool ==
    <<Star(A, "Star", "ma"), Star(A, "Star", "mb"), Star(B, "Star", "ma"),
      Star(NameAstrbot, "Star", "ma"), Star(NameHelp, "Star", "mb"),
      Star(NameReminder, "Star", "ma"), Star(C, "self", "mb"),
      Star(D, "object", "ma")>>

Filter(kind, name) == [kind |-> kind, name |-> name]

Handler(is_metadata, handler_module_path, desc, event_filters) ==
    [is_metadata |-> is_metadata, handler_module_path |-> handler_module_path,
     desc |-> desc, event_filters |-> event_filters]

\* handler records the host may hold; the first three format to "x#d"
HandlerPool ==
    <<Handler(TRUE, "ma", <<"d">>, <<Filter("CommandFilter", <<"x">>)>>),
      Handler(TRUE, "ma", <<>>, <<Filter("CommandFilter", <<"x", "#", "d">>)>>),
      Handler(TRUE, "mb", <<"d">>,
              <<Filter("Other", <<>>), Filter("CommandGroupFilter", <<"x">>),
                Filter("CommandFilter", <<"y">>)>>),
      Handler(TRUE, "ma", <<>>, <<Filter("CommandFilter", <<"y">>)>>),
      Handler(FALSE, "ma", <<>>, <<Filter("CommandFilter", <<"z">>)>>),
      Handler(TRUE, "mb", <<"d">>, <<Filter("Other", <<>>)>>)>>

\* the registry of the specifications that do not vary it
FixedStars == <<Star(A, "Star", "ma"), Star(B, "Star", "mb")>>

FixedHandlers == <<HandlerPool[1], HandlerPool[4], HandlerPool[3]>>

\* the plugin_whitelist of the specifications that do not vary it: "A-a", "B-b"
FixedPluginWhitelist == <<PyStr(<<"A", "-", "a">>), PyStr(<<"B", "-", "b">>)>>

----------------------------------------------------------------------------
(* Specifications *)

InitWith(plugin_whitelists, whitelists, star_lists, handler_lists) ==
    /\ pc = "new"
    /\ plugin_whitelist \in plugin_whitelists
    /\ whitelist \in whitelists
    /\ whitelist_commands = <<>>
    /\ registered = <<>>
    /\ attrs = <<>>
    /\ stars \in star_lists
    /\ star_handlers_registry \in handler_lists
    /\ last = NoOutcome

\* construction, over every plugin_whitelist of at most MaxConfigSize
\* characters and items in all
InitParse ==
    \E n \in 0..MaxConfigSize : \E text \in ListTexts(n) :
        InitWith({Items(text, 1, <<>>)}, {<<>>}, {<<>>}, {<<>>})

NextParse == Construct

SpecParse == InitParse /\ [][NextParse]_vars

\* the synthesized handlers, over the plugin_whitelists made of EntryPool
InitHandlers ==
    InitWith(SeqsUpTo(EntryPool, MaxEntries), {<<>>}, {FixedStars}, {FixedHandlers})

NextHandlers ==
    \/ Construct
    \/ \E i \in 1..(MaxEntries + 1), stars_raise, draw_raise \in BOOLEAN :
           WhitelistHandler(i, Event(TRUE, FALSE, PyOther), stars_raise, draw_raise)
    \/ \E i \in 1..Len(FixedStars) : SetActivated(i)

SpecHandlers == InitHandlers /\ [][NextHandlers]_vars

\* both entry points, over the caller whitelists made of IdPool
InitGate ==
    InitWith({FixedPluginWhitelist}, SeqsUpTo(IdPool, MaxWhitelist),
             {FixedStars}, {FixedHandlers})

NextGate ==
    \/ Construct
    \/ \E event \in Events, stars_raise, draw_raise \in BOOLEAN :
           GetHelp(event, stars_raise, draw_raise)
    \/ \E i \in 1..Len(FixedPluginWhitelist), event \in Events,
          stars_raise, draw_raise \in BOOLEAN :
           WhitelistHandler(i, event, stars_raise, draw_raise)
    \/ \E i \in 1..Len(FixedStars) : SetActivated(i)

SpecGate == InitGate /\ [][NextGate]_vars

\* the scans, over the registries made of StarPool and HandlerPool
InitScan ==
    InitWith({FixedPluginWhitelist}, {<<>>}, SubSeqs(StarPool, MaxStars),
             SubSeqs(HandlerPool, MaxHandlers))

NextScan ==
    \/ Construct
    \/ \E stars_raise \in BOOLEAN :
           GetHelp(Event(TRUE, FALSE, PyOther), stars_raise, FALSE)
    \/ \E i \in 1..Len(FixedPluginWhitelist), stars_raise \in BOOLEAN :
           WhitelistHandler(i, Event(TRUE, FALSE, PyOther), stars_raise, FALSE)
    \/ \E i \in 1..(MaxStars + 1) : SetActivated(i)

SpecScan == InitScan /\ [][NextScan]_vars

\* configuration changes after construction with FixedPluginWhitelist
InitReload ==
    InitWith({FixedPluginWhitelist}, {<<>>}, {FixedStars}, {FixedHandlers})

NextReload ==
    \/ Construct
    \/ \E items \in SeqsUpTo(EntryPool, MaxEntries) : SetPluginWhitelist(items)
    \/ \E i \in 1..Len(FixedPluginWhitelist), stars_raise, draw_raise \in BOOLEAN :
           WhitelistHandler(i, Event(TRUE, FALSE, PyOther), stars_raise, draw_raise)
    \/ \E i \in 1..Len(FixedStars) : SetActivated(i)

SpecReload == InitReload /\ [][NextReload]_vars

----------------------------------------------------------------------------
(* What a plugin_whitelist entry says, stated without the parser's operators *)

Blank(s) == \A i \in 1..Len(s) : s[i] = " "

\* t is s without its leading and trailing blanks
IsTrimOf(t, s) ==
    /\ t = <<>> \/ (t[1] # " " /\ t[Len(t)] # " ")
    /\ \E i, j \in 0..Len(s) :
           /\ i + j <= Len(s)
           /\ Blank(SubSeq(s, 1, i))
           /\ Blank(SubSeq(s, Len(s) - j + 1, Len(s)))
           /\ t = SubSeq(s, i + 1, Len(s) - j)

TrimOf(s) ==
    CHOOSE t \in {SubSeq(s, i, j) : i \in 1..(Len(s) + 1), j \in 0..Len(s)} :
        IsTrimOf(t, s)

\* the item is a string with a '-'
HasDash(item) == item.type = "str" /\ \E i \in 1..Len(item.chars) : item.chars[i] = "-"

\* the position of the first '-' of an item that has one
FirstDash(item) ==
    CHOOSE i \in 1..Len(item.chars) :
        item.chars[i] = "-" /\ \A j \in 1..(i - 1) : item.chars[j] # "-"

\* the extension name of an item "name-trigger"
NameOf(item) == TrimOf(SubSeq(item.chars, 1, FirstDash(item) - 1))

\* the trigger command of an item "name-trigger"
TriggerOf(item) ==
    TrimOf(SubSeq(item.chars, FirstDash(item) + 1, Len(item.chars)))

\* an item "A-B" with A and B non-empty after trim
WellFormed(item) ==
    HasDash(item) /\ NameOf(item) # <<>> /\ TriggerOf(item) # <<>>

Maps(d, k, v) == \E n \in 1..Len(d) : d[n] = <<k, v>>

\* every pair of both maps comes from an item with a '-'
OnlyFromDashItems(items, by_trigger, by_name) ==
    /\ \A n \in 1..Len(by_trigger) : \E i \in 1..Len(items) :
           /\ HasDash(items[i])
           /\ by_trigger[n] = <<TriggerOf(items[i]), NameOf(items[i])>>
    /\ \A n \in 1..Len(by_name) : \E i \in 1..Len(items) :
           /\ HasDash(items[i])
           /\ by_name[n] = <<NameOf(items[i]), TriggerOf(items[i])>>

----------------------------------------------------------------------------
(* C6: the whitelist parser *)

\* C6, as stated: after construction every item "A-B" (split on the first '-',
\* A and B non-empty after trim) has B -> A in the trigger-keyed map and
\* A -> B in the extension-keyed map, and items without '-' add nothing.
C6_AsStated ==
    pc = "ready" =>
        LET by_name == ext_whitelist_config(plugin_whitelist)
        IN /\ \A i \in 1..Len(plugin_whitelist) :
                  WellFormed(plugin_whitelist[i]) =>
                      /\ Maps(whitelist_commands, TriggerOf(plugin_whitelist[i]),
                              NameOf(plugin_whitelist[i]))
                      /\ Maps(by_name, NameOf(plugin_whitelist[i]),
                              TriggerOf(plugin_whitelist[i]))
           /\ OnlyFromDashItems(plugin_whitelist, whitelist_commands, by_name)

\* C6, amended: every item "A-B" (split on the first '-', A and B non-empty
\* after trim) has B -> A in the trigger-keyed map unless a later item with a
\* '-' has the same trigger, and A -> B in the extension-keyed map unless a
\* later item with a '-' has the same extension name (the later item's value
\* replaces it); items without '-' add nothing to either map.
C6_LastWins ==
    pc = "ready" =>
        LET by_name == ext_whitelist_config(plugin_whitelist)
            items == plugin_whitelist
            Later(i) == {j \in (i + 1)..Len(items) : HasDash(items[j])}
        IN /\ \A i \in 1..Len(items) :
                  WellFormed(items[i]) =>
                      /\ (\A j \in Later(i) : TriggerOf(items[j]) # TriggerOf(items[i]))
                           => Maps(whitelist_commands, TriggerOf(items[i]),
                                   NameOf(items[i]))
                      /\ (\A j \in Later(i) : NameOf(items[j]) # NameOf(items[i]))
                           => Maps(by_name, NameOf(items[i]), TriggerOf(items[i]))
           /\ OnlyFromDashItems(items, whitelist_commands, by_name)

\* C6's case: two well-formed items name the same extension with different
\* triggers, and the extension-keyed map holds the later one's trigger.
C6_Witness ==
    /\ pc = "ready"
    /\ \E i, j \in 1..Len(plugin_whitelist) :
           /\ i < j
           /\ WellFormed(plugin_whitelist[i])
           /\ WellFormed(plugin_whitelist[j])
           /\ NameOf(plugin_whitelist[i]) = NameOf(plugin_whitelist[j])
           /\ TriggerOf(plugin_whitelist[i]) # TriggerOf(plugin_whitelist[j])
           /\ Maps(ext_whitelist_config(plugin_whitelist),
                   NameOf(plugin_whitelist[j]), TriggerOf(plugin_whitelist[j]))
           /\ Maps(whitelist_commands, TriggerOf(plugin_whitelist[i]),
                   NameOf(plugin_whitelist[i]))

----------------------------------------------------------------------------
(* C7: no empty side *)

\* C7: after construction every entry of the whitelist maps, and every
\* synthesized handler, has a trigger command and an extension name that are
\* both non-empty after trim.
C7_NoEmptySide ==
    pc = "ready" =>
        /\ \A n \in 1..Len(whitelist_commands) :
               ~Blank(whitelist_commands[n][1]) /\ ~Blank(whitelist_commands[n][2])
        /\ \A n \in 1..Len(registered) :
               ~Blank(registered[n][1]) /\ ~Blank(registered[n][2])
        /\ LET by_name == ext_whitelist_config(plugin_whitelist)
           IN \A n \in 1..Len(by_name) :
                  ~Blank(by_name[n][1]) /\ ~Blank(by_name[n][2])

----------------------------------------------------------------------------
(* C8: handler identities *)

\* C8: after construction the instance holds one bound handler per distinct
\* trigger: every trigger's handler is still bound, none was overwritten.
C8_OneHandlerPerTrigger ==
    pc = "ready" =>
        /\ Len(attrs) = Len(whitelist_commands)
        /\ \A n \in 1..Len(whitelist_commands) : \E m \in 1..Len(attrs) :
               attrs[m][2] = whitelist_commands[n]

----------------------------------------------------------------------------
(* C4: the binding of the synthesized handlers *)

\* the items with a '-' have pairwise different triggers
DistinctTriggers(items) ==
    \A i, j \in 1..Len(items) :
        (i < j /\ HasDash(items[i]) /\ HasDash(items[j]))
            => TriggerOf(items[i]) # TriggerOf(items[j])

\* C4: with distinct triggers, the handler invoked for trigger t is bound to
\* the extension E of the item whose trigger is t; it renders iff E is a key
\* of the scan result, and then exactly {E: commands of E}; otherwise it
\* replies "not found or not active" naming E and renders nothing.
C4_BoundToOwnEntry ==
    (last.op = "handler" /\ DistinctTriggers(plugin_whitelist)) =>
        \E i \in 1..Len(plugin_whitelist) :
            /\ HasDash(plugin_whitelist[i])
            /\ TriggerOf(plugin_whitelist[i]) = last.command
            /\ LET E == NameOf(plugin_whitelist[i])
               IN /\ last.bound = E
                  /\ IF DictHas(last.help_msg, E)
                     THEN last.rendered = <<<<<<E, DictGet(last.help_msg, E)>>>>>>
                     ELSE /\ last.rendered = <<>>
                          /\ last.replies =
                                 <<PlainResult("not found or not active", E)>>
                  /\ (\A n \in 1..Len(stars) : stars[n].name = E => ~stars[n].activated)
                         => last.rendered = <<>>

\* C4's case: two items with different triggers and different extensions, the
\* first item's trigger is invoked, and its own extension is rendered.
C4_Witness ==
    /\ last.op = "handler"
    /\ Len(plugin_whitelist) = 2
    /\ WellFormed(plugin_whitelist[1])
    /\ WellFormed(plugin_whitelist[2])
    /\ TriggerOf(plugin_whitelist[1]) # TriggerOf(plugin_whitelist[2])
    /\ NameOf(plugin_whitelist[1]) # NameOf(plugin_whitelist[2])
    /\ last.command = TriggerOf(plugin_whitelist[1])
    /\ last.rendered # <<>>
    /\ last.rendered[1][1][1] = NameOf(plugin_whitelist[1])

----------------------------------------------------------------------------
(* C1, C2, C5: the gate of get_help and failure containment *)

\* some whitelist entry has the caller's id as its str()
Whitelisted(user_id) ==
    \E i \in 1..Len(whitelist) : str(whitelist[i]) = str(user_id)

\* C1: a get_help call by a caller with an id passes the gate iff the
\* whitelist is empty or str(id) = str(entry) for some entry; a denied call
\* replies nothing, scans nothing and renders nothing.
C1_Gate ==
    (last.op = "get_help" /\ last.event.has_raw /\ last.event.has_user_id) =>
        IF whitelist = <<>> \/ Whitelisted(last.event.user_id)
        THEN last.scanned
        ELSE /\ ~last.scanned
             /\ last.replies = <<>>
             /\ last.rendered = <<>>
             /\ ~last.fault

\* C1's case: an int id passes a whitelist of strings only.
C1_Witness ==
    /\ last.op = "get_help"
    /\ last.event.has_user_id
    /\ last.event.user_id.type = "int"
    /\ whitelist # <<>>
    /\ \A i \in 1..Len(whitelist) : whitelist[i].type = "str"
    /\ last.scanned
    /\ last.replies # <<>>

\* C2: with a non-empty whitelist, a get_help call whose caller id cannot be
\* determined (no raw message, or no user_id in it) goes on to the scan and
\* ends with the normal reply, not with a denial or a fault (the renderer
\* not failing).
C2_UnknownCallerAllowed ==
    (/\ last.op = "get_help"
     /\ whitelist # <<>>
     /\ ~last.event.has_raw \/ ~last.event.has_user_id
     /\ ~last.draw_raise) =>
        /\ last.scanned
        /\ ~last.fault
        /\ Len(last.replies) = 1

\* a collaborator failed during the last invocation
CollaboratorFailed ==
    \/ last.op = "get_help" /\ ~last.event.has_raw
    \/ last.scanned /\ last.stars_raise
    \/ last.rendered # <<>> /\ last.draw_raise

\* C5: no invocation of either entry point ends with an unhandled fault; when
\* a collaborator failed it ends with one plain-text reply, and get_help
\* replies "no plugins or commands found" when the registry query raises.
C5_FailuresContained ==
    last.op # "none" =>
        /\ ~last.fault
        /\ CollaboratorFailed =>
               Len(last.replies) = 1 /\ last.replies[1].kind = "plain"
        /\ (last.op = "get_help" /\ last.scanned /\ last.stars_raise) =>
               last.replies = <<PlainResult("no plugins or commands found", <<>>)>>

----------------------------------------------------------------------------
(* C3, C9: the scans *)

\* the handler is one the scans list for a star of this module
Lists(handler, module_path) ==
    /\ handler.is_metadata
    /\ handler.handler_module_path = module_path
    /\ command_name(handler) # <<>>

\* C3: no key of the mapping get_all_commands returns is a reserved name, and
\* every key, with each command listed under it, comes from a star of that
\* name that is activated at the call and is not this plugin itself.
C3_AllScanExclusions ==
    (last.op = "get_help" /\ last.scanned) =>
        \A n \in 1..Len(last.help_msg) :
            LET name == last.help_msg[n][1]
                commands == last.help_msg[n][2]
            IN /\ name \notin {NameAstrbot, NameHelp, NameReminder}
               /\ \A c \in 1..Len(commands) :
                      \E i \in 1..Len(stars), h \in 1..Len(star_handlers_registry) :
                          /\ stars[i].name = name
                          /\ stars[i].activated
                          /\ stars[i].star_cls # "self"
                          /\ Lists(star_handlers_registry[h], stars[i].module_path)
                          /\ formatted_command(star_handlers_registry[h]) = commands[c]

\* C3's case: get_all_commands returns a non-empty mapping while the registry
\* holds a deactivated star that would be listed were it activated.
C3_Witness ==
    /\ last.op = "get_help"
    /\ last.help_msg # <<>>
    /\ \E i \in 1..Len(stars), h \in 1..Len(star_handlers_registry) :
           /\ ~stars[i].activated
           /\ stars[i].star_cls = "Star"
           /\ stars[i].name \in {A, B}
           /\ ~DictHas(last.help_msg, stars[i].name)
           /\ Lists(star_handlers_registry[h], stars[i].module_path)

\* the star is one the last invocation's scan lists commands for
Scanned(star) ==
    /\ star.activated
    /\ star.name # <<>>
    /\ star.module_path # ""
    /\ star.star_cls = "Star"
    /\ IF last.op = "get_help"
       THEN star.name \notin {NameAstrbot, NameHelp, NameReminder}
       ELSE \E i \in 1..Len(plugin_whitelist) :
                HasDash(plugin_whitelist[i]) /\ NameOf(plugin_whitelist[i]) = star.name

\* the formatted commands the handlers from index h on give the star
RECURSIVE HandlerContributions(_, _)
HandlerContributions(star, h) ==
    IF h > Len(star_handlers_registry) THEN <<>>
    ELSE (IF Lists(star_handlers_registry[h], star.module_path)
          THEN <<formatted_command(star_handlers_registry[h])>> ELSE <<>>)
         \o HandlerContributions(star, h + 1)

\* every formatted command found for the name, duplicates included, in
\* registry order, from star index i on
RECURSIVE Contributions(_, _)
Contributions(name, i) ==
    IF i > Len(stars) THEN <<>>
    ELSE (IF stars[i].name = name /\ Scanned(stars[i])
          THEN HandlerContributions(stars[i], 1) ELSE <<>>)
         \o Contributions(name, i + 1)

\* list with only the first occurrence of each element
RECURSIVE FirstOccurrences(_, _)
FirstOccurrences(list, i) ==
    IF i > Len(list) THEN <<>>
    ELSE (IF \E j \in 1..(i - 1) : list[j] = list[i] THEN <<>> ELSE <<list[i]>>)
         \o FirstOccurrences(list, i + 1)

\* C9: in the mapping either scan returns no list holds a string twice, and
\* each list is the strings found for its extension in registry order with
\* only the first occurrence of each kept.
C9_Deduplicated ==
    (last.op # "none" /\ last.scanned) =>
        \A n \in 1..Len(last.help_msg) :
            LET commands == last.help_msg[n][2]
            IN /\ \A i, j \in 1..Len(commands) : i # j => commands[i] # commands[j]
               /\ commands = FirstOccurrences(Contributions(last.help_msg[n][1], 1), 1)

\* C9's case: an extension for which the same formatted string was found
\* more than once, by two stars sharing its name.
C9_Witness ==
    /\ last.op # "none"
    /\ \E n \in 1..Len(last.help_msg) :
           /\ Len(Contributions(last.help_msg[n][1], 1)) > Len(last.help_msg[n][2])
           /\ \E i, j \in 1..Len(stars) :
                  /\ i < j
                  /\ stars[i].name = last.help_msg[n][1]
                  /\ stars[j].name = last.help_msg[n][1]
                  /\ Scanned(stars[i])
                  /\ Scanned(stars[j])

----------------------------------------------------------------------------
(* C10: configuration changes after construction *)

====
